---- MODULE Spec2Model ----
(***************************************************************************)
(* Model of photo-cutter.py: the crop geometry (get_crop_coords,           *)
(* get_target_crop_box, determine_target_ratio) and the batch session      *)
(* driven by the Tk callbacks select_files, begin_process, update_anchor,  *)
(* update_mode and update_target_ratios.                                   *)
(***************************************************************************)
EXTENDS Integers, Sequences, FiniteSets, TLC

\* ------------------------------------------------------------------ bounds
MaxDim == 9        \* largest image side drawn for the geometry inputs
MaxRatio == 9      \* largest ratio component drawn for the geometry inputs
MaxQueue == 2      \* longest file selection
MaxApply == 2      \* largest number typed into the Width/Height entries

\* ---------------------------------------------------------- configuration
ANCHOR_OPTIONS == {"center", "start", "end"}
MODE_OPTIONS == {"auto", "landscape", "portrait"}
DEFAULT_RATIOS ==
    [landscape |-> <<15, 10>>, portrait |-> <<10, 15>>, square |-> <<15, 15>>]

\* ------------------------------------------------- binary64 float helpers
\* Python evaluates target_w / target_h, height * ratio and width / ratio in
\* IEEE-754 binary64 and truncates with int().  The operators below compute
\* the same integers with integer arithmetic only (valid while the products
\* below fit 32-bit integers, which the drawn inputs do).

RECURSIVE Pow2(_)
Pow2(e) == IF e <= 0 THEN 1 ELSE 2 * Pow2(e - 1)

SquareMod(half, e, m) ==
    IF e % 2 = 0 THEN (half * half) % m ELSE (2 * half * half) % m

RECURSIVE Pow2Mod(_, _)
\* 2^e mod m, by repeated squaring
Pow2Mod(e, m) == IF e <= 0 THEN 1 % m ELSE SquareMod(Pow2Mod(e \div 2, m), e, m)

RECURSIVE LogUp(_, _)
\* number of doublings of d that keep 2*d <= n (n >= d)
LogUp(n, d) == IF n >= 2 * d THEN 1 + LogUp(n, 2 * d) ELSE 0

RECURSIVE LogDown(_, _)
\* number of doublings of n needed to reach n >= d (n < d)
LogDown(n, d) == IF n < d THEN 1 + LogDown(2 * n, d) ELSE 0

\* largest a with 2^a <= n/d
FloorLog2(n, d) == IF n >= d THEN LogUp(n, d) ELSE 0 - LogDown(n, d)

IsPow2(n) == n = Pow2(FloorLog2(n, 1))

DividesScaled(x, p, y) == (x \div p) < y \/ ((x \div p) = y /\ x % p = 0)

\* x * 2^e <= y, for e of either sign
LeqScaled(x, e, y) ==
    IF e >= 0 THEN x * Pow2(e) <= y
    ELSE IF e < 0 - 30 THEN TRUE
    ELSE DividesScaled(x, Pow2(0 - e), y)

\* round to nearest, ties to even: r is the remainder of the scaled quotient,
\* odd the parity of its integer part
Nearest(r, d, odd) ==
    IF 2 * r < d THEN 0 - r
    ELSE IF 2 * r > d THEN d - r
    ELSE IF odd THEN d - r ELSE 0 - r

RoundErrAt(n, d, s) ==
    Nearest((n * Pow2Mod(s, d)) % d, d,
            ((n * Pow2Mod(s, 2 * d)) % (2 * d)) >= d)

\* Rounding error of the binary64 quotient n/d, in units of 1/(d * 2^s) with
\* s = 52 - FloorLog2(n, d): fl(n/d) = n/d + RoundErr(n, d) / (d * 2^s).
RoundErr(n, d) == RoundErrAt(n, d, 52 - FloorLog2(n, d))

\* binary exponent deciding whether a product or quotient that is exactly the
\* integer N before rounding still rounds to N
HalfUlpExp(n, d, N) ==
    1 + FloorLog2(n, d) - FloorLog2(N, 1) + (IF IsPow2(N) THEN 1 ELSE 0)

MulRounded(x, n, d, N, rho) ==
    IF rho >= 0 THEN N
    ELSE IF LeqScaled(x * (0 - rho), HalfUlpExp(n, d, N), d) THEN N ELSE N - 1

\* int(x * (n / d)) as Python computes it
FloatMulTrunc(x, n, d) ==
    IF (x * n) % d # 0 THEN (x * n) \div d
    ELSE MulRounded(x, n, d, (x * n) \div d, RoundErr(n, d))

DivRounded(n, d, M, rho) ==
    IF rho <= 0 THEN M
    ELSE IF LeqScaled(M * rho, HalfUlpExp(n, d, M), n) THEN M ELSE M - 1

\* int(x / (n / d)) as Python computes it
FloatDivTrunc(x, n, d) ==
    IF (x * d) % n # 0 THEN (x * d) \div n
    ELSE DivRounded(n, d, (x * d) \div n, RoundErr(n, d))

\* width / height > target_w / target_h on binary64 quotients; rounding is
\* monotone and distinct quotients of these magnitudes round to distinct
\* doubles, so the comparison is the exact one
FloatRatioGreater(w, h, n, d) == w * d > h * n

\* ------------------------------------------------------------ image utils
get_orientation(width, height) ==
    IF width > height THEN "landscape"
    ELSE IF height > width THEN "portrait"
    ELSE "square"

\* variant: the leading margin takes the whole leftover
CenteredLate(start, offset, crop_length) ==
    <<start + 2 * offset, start + 2 * offset + crop_length>>

Centered(start, offset, crop_length) == <<start + offset, start + offset + crop_length>>

get_crop_coords(start, length, crop_length, anchor) ==
    IF anchor = "start" THEN <<start, start + crop_length>>
    ELSE IF anchor = "end" THEN <<start + (length - crop_length), start + length>>
    ELSE Centered(start, (length - crop_length) \div 2, crop_length)

\* variant: the crop length is used for the untouched axis too
WidthCropBoth(xs, height) == <<xs[1], 0, xs[2], xs[2] - xs[1]>>

\* return (x0, 0, x1, height)
WidthCrop(xs, height) == <<xs[1], 0, xs[2], height>>

\* return (0, y0, width, y1)
HeightCrop(ys, width) == <<0, ys[1], width, ys[2]>>

get_target_crop_box(width, height, target_ratio, anchor) ==
    IF FloatRatioGreater(width, height, target_ratio[1], target_ratio[2])
    THEN WidthCrop(get_crop_coords(0, width,
                       FloatMulTrunc(height, target_ratio[1], target_ratio[2]),
                       anchor), height)
    ELSE HeightCrop(get_crop_coords(0, height,
                       FloatDivTrunc(width, target_ratio[1], target_ratio[2]),
                       anchor), width)

\* variant: the forced mode is ignored
determine_target_ratio_classifies(width, height, mode, ratios) ==
    <<ratios[get_orientation(width, height)], get_orientation(width, height)>>

determine_target_ratio(width, height, mode, ratios) ==
    IF mode \in {"landscape", "portrait"}
    THEN <<ratios[mode], mode>>
    ELSE <<ratios[get_orientation(width, height)], get_orientation(width, height)>>

\* -------------------------------------------------------------- the state
VARIABLES
    selected_files,   \* app_state["selected_files"]
    current_index,    \* app_state["current_index"]
    crop_anchor,      \* app_state["crop_anchor"]
    crop_mode,        \* app_state["crop_mode"]
    TARGET_RATIOS,    \* the module-level ratio table
    process_button,   \* state of the "Process Photo" button
    preview,          \* what preview_label shows
    disk,             \* the files on disk, by path
    attempts,         \* per queue position: commit pipelines started since the selection
    last,             \* the callback that ran last and how it ended
    crop_in,          \* arguments of a direct get_target_crop_box call
    crop_out          \* its result, <<>> before the call

vars == <<selected_files, current_index, crop_anchor, crop_mode, TARGET_RATIOS,
          process_button, preview, disk, attempts, last, crop_in, crop_out>>

session_vars == <<selected_files, current_index, crop_anchor, crop_mode,
                  TARGET_RATIOS, process_button, preview, disk, attempts, last>>

\* ------------------------------------------------------------- file names
Path(base, ext) == [dir |-> "pics", base |-> base, ext |-> ext]

\* the files offered by the file dialog
Files == {Path("a", ".png"), Path("a", ".jpg")}

\* str.lower() on the extensions in use
Lower(ext) ==
    CASE ext = ".JPG" -> ".jpg"
      [] ext = ".PNG" -> ".png"
      [] OTHER -> ext

\* os.path.join(dirname(p), splitext(basename(p))[0] + ".jpg")
OutputPath(p) == [dir |-> p.dir, base |-> p.base, ext |-> ".jpg"]

DiskPaths == Files \cup {OutputPath(p) : p \in Files}

Absent == [kind |-> "absent", w |-> 0, h |-> 0]
Corrupt == [kind |-> "corrupt", w |-> 0, h |-> 0]
Picture(w, h) == [kind |-> "image", w |-> w, h |-> h]

InitContents == {Corrupt, Picture(2, 2)}

\* selections the dialog can return: distinct files, in the user's order
RECURSIVE SeqsOfLen(_)
SeqsOfLen(n) ==
    IF n = 0 THEN {<<>>}
    ELSE {Append(q, f) : q \in SeqsOfLen(n - 1), f \in Files}

NoRepeat(q) == \A i, j \in 1..Len(q) : i # j => q[i] # q[j]

Selections == {q \in UNION {SeqsOfLen(n) : n \in 0..MaxQueue} : NoRepeat(q)}

\* texts typed into the Width / Height entries
Entry(n) == [text |-> "int", val |-> n]
Junk == [text |-> "junk", val |-> 0]
Entries == {Entry(0 - 1), Entry(0), Entry(1), Entry(MaxApply), Junk}

\* what image.save and os.remove do during one begin_process call
Faults == {"none", "save_denied", "save_partial", "remove_fails"}

\* ------------------------------------------------------- image processing
NoImage == [ok |-> FALSE, w |-> 0, h |-> 0, box |-> <<0, 0, 0, 0>>]

\* img.crop(crop_box)
Cropped(box) ==
    [ok |-> TRUE, w |-> box[3] - box[1], h |-> box[4] - box[2], box |-> box]

\* the body of "with Image.open(file_path) as img"
CropOf(c, anchor, mode, ratios) ==
    Cropped(get_target_crop_box(c.w, c.h,
                determine_target_ratio(c.w, c.h, mode, ratios)[1], anchor))

\* convert_image_only: None when the file cannot be opened, else the crop
convert_image_only(file_path, anchor, mode, ratios, dsk) ==
    IF dsk[file_path].kind # "image" THEN NoImage
    ELSE CropOf(dsk[file_path], anchor, mode, ratios)

\* the JPEG encoder refuses an image with no pixels
Encodable(image) == image.w > 0 /\ image.h > 0

Placeholder == [kind |-> "placeholder", box |-> <<0, 0, 0, 0>>]

\* variant: every image shown flips the button
ShowImageToggles(image, shown, button) ==
    IF ~image.ok THEN <<shown, button>>
    ELSE IF ~Encodable(image) THEN <<shown, button>>
    ELSE <<[kind |-> "image", box |-> image.box],
           IF button = "normal" THEN "disabled" ELSE "normal">>

\* update_preview from "if image:" on; saving the thumbnail of an image with
\* no pixels raises before the label and the button are touched
ShowImage(image, shown, button) ==
    IF ~image.ok THEN <<shown, button>>
    ELSE IF ~Encodable(image) THEN <<shown, button>>
    ELSE <<[kind |-> "image", box |-> image.box], "normal">>

\* variant: the placeholder is shown without disabling the button
update_preview_keeps_button(files, index, anchor, mode, ratios, dsk, shown, button) ==
    IF files = <<>> \/ index >= Len(files)
    THEN <<Placeholder, button>>
    ELSE ShowImage(convert_image_only(files[index + 1], anchor, mode, ratios, dsk),
                   shown, button)

\* update_preview: the new <<preview, process_button>>
update_preview(files, index, anchor, mode, ratios, dsk, shown, button) ==
    IF files = <<>> \/ index >= Len(files)
    THEN <<Placeholder, "disabled">>
    ELSE ShowImage(convert_image_only(files[index + 1], anchor, mode, ratios, dsk),
                   shown, button)

\* the result of the file work of one begin_process call
Result(raised, dsk, outcome) == [raised |-> raised, disk |-> dsk, outcome |-> outcome]

\* variant: the original is removed whatever its extension
RemoveOriginalAlways(saved, original_path, fault) ==
    IF fault = "remove_fails"
    THEN Result(TRUE, saved, "delete_failed")
    ELSE Result(FALSE, [saved EXCEPT ![original_path] = Absent], "saved")

\* os.remove(original_path), reached when the extension is not .jpg
RemoveOriginal(saved, original_path, fault) ==
    IF Lower(original_path.ext) # ".jpg"
    THEN IF fault = "remove_fails"
         THEN Result(TRUE, saved, "delete_failed")
         ELSE Result(FALSE, [saved EXCEPT ![original_path] = Absent], "saved")
    ELSE Result(FALSE, saved, "saved")

\* save_image: image.save(output_path), then the removal
save_image(image, original_path, dsk, fault) ==
    IF fault = "save_partial"
    THEN Result(TRUE, [dsk EXCEPT ![OutputPath(original_path)] = Corrupt],
                "save_failed")
    ELSE IF fault = "save_denied" \/ ~Encodable(image)
    THEN Result(TRUE, dsk, "save_failed")
    ELSE RemoveOriginal(
             [dsk EXCEPT ![OutputPath(original_path)] = Picture(image.w, image.h)],
             original_path, fault)

\* variant: a failed decode leaves an unreadable output file
SaveIfImageTouches(image, file_path, dsk, fault) ==
    IF image.ok THEN save_image(image, file_path, dsk, fault)
    ELSE Result(FALSE, [dsk EXCEPT ![OutputPath(file_path)] = Corrupt],
                "decode_failed")

\* process_and_save from "if image:" on
SaveIfImage(image, file_path, dsk, fault) ==
    IF image.ok THEN save_image(image, file_path, dsk, fault)
    ELSE Result(FALSE, dsk, "decode_failed")

process_and_save(file_path, anchor, mode, ratios, dsk, fault) ==
    SaveIfImage(convert_image_only(file_path, anchor, mode, ratios, dsk),
                file_path, dsk, fault)

\* pre is the index begin_process started from, paths what the dialog returned
Done(op, pre, paths, outcome) ==
    [op |-> op, pre |-> pre, paths |-> paths, outcome |-> outcome]

\* ------------------------------------------------------------- callbacks
Render(files, index, anchor, mode, ratios, dsk) ==
    \E r \in {update_preview(files, index, anchor, mode, ratios, dsk,
                             preview, process_button)} :
        preview' = r[1] /\ process_button' = r[2]

\* variant: an empty selection is not treated as a cancel
CancelledNever(paths) == FALSE

\* "if not file_paths": the dialog was cancelled
Cancelled(paths) == paths = <<>>

\* variant: the selection is appended to the queue
SelectedQueueAppended(old, paths) == old \o paths

\* app_state["selected_files"] = list(file_paths)
SelectedQueue(old, paths) == paths

\* variant: the index skips a file
AdvancedIndexTwice(index) == index + 2

\* app_state["current_index"] += 1
AdvancedIndex(index) == index + 1

\* select_files: the dialog returned paths (empty when cancelled)
select_files(paths) ==
    /\ UNCHANGED <<crop_anchor, crop_mode, TARGET_RATIOS, disk, crop_in, crop_out>>
    /\ IF Cancelled(paths)
       THEN /\ last' = Done("select_files", 0, paths, "cancelled")
            /\ UNCHANGED <<selected_files, current_index, attempts, preview,
                           process_button>>
       ELSE /\ selected_files' = SelectedQueue(selected_files, paths)
            /\ current_index' = 0
            /\ attempts' = [i \in 1..Len(selected_files') |-> "never"]
            /\ Render(selected_files', 0, crop_anchor, crop_mode, TARGET_RATIOS,
                      disk)
            /\ last' = Done("select_files", 0, paths, "selected")

\* one more commit pipeline started at queue position i
Bump(i) ==
    [attempts EXCEPT ![i] = IF @ = "never" THEN "once" ELSE "again"]

\* begin_process, the command of process_button; the handler carries its own
\* guard and is modelled as callable in every state.  An exception of
\* image.save or os.remove leaves begin_process before the index is advanced.
begin_process(fault) ==
    /\ UNCHANGED <<selected_files, crop_anchor, crop_mode, TARGET_RATIOS,
                   crop_in, crop_out>>
    /\ IF current_index >= Len(selected_files)
       THEN /\ last' = Done("begin_process", current_index, <<>>, "returned")
            /\ UNCHANGED <<current_index, disk, attempts, preview, process_button>>
       ELSE \E res \in {process_and_save(selected_files[current_index + 1],
                            crop_anchor, crop_mode, TARGET_RATIOS, disk, fault)} :
                /\ attempts' = Bump(current_index + 1)
                /\ disk' = res.disk
                /\ last' = Done("begin_process", current_index, <<>>, res.outcome)
                /\ IF res.raised
                   THEN UNCHANGED <<current_index, preview, process_button>>
                   ELSE /\ current_index' = AdvancedIndex(current_index)
                        /\ Render(selected_files, current_index', crop_anchor,
                                  crop_mode, TARGET_RATIOS, disk')

update_anchor(val) ==
    /\ crop_anchor' = val
    /\ Render(selected_files, current_index, val, crop_mode, TARGET_RATIOS, disk)
    /\ last' = Done("update_anchor", 0, <<>>, "set")
    /\ UNCHANGED <<selected_files, current_index, crop_mode, TARGET_RATIOS, disk,
                   attempts, crop_in, crop_out>>

\* variant: changing the mode restarts the batch
update_mode_restarts(val) ==
    /\ crop_mode' = val
    /\ current_index' = 0
    /\ Render(selected_files, 0, crop_anchor, val, TARGET_RATIOS, disk)
    /\ last' = Done("update_mode", 0, <<>>, "set")
    /\ UNCHANGED <<selected_files, crop_anchor, TARGET_RATIOS, disk,
                   attempts, crop_in, crop_out>>

update_mode(val) ==
    /\ crop_mode' = val
    /\ Render(selected_files, current_index, crop_anchor, val, TARGET_RATIOS, disk)
    /\ last' = Done("update_mode", 0, <<>>, "set")
    /\ UNCHANGED <<selected_files, current_index, crop_anchor, TARGET_RATIOS, disk,
                   attempts, crop_in, crop_out>>

\* variant: the first number is taken as the larger
MaxFirst(a, b) == a

Max(a, b) == IF a >= b THEN a ELSE b
Min(a, b) == IF a <= b THEN a ELSE b

\* int(text) succeeds on integer literals only
IntParses(entry) == entry.text = "int"

\* the three assignments to TARGET_RATIOS
NewRatios(big, small) ==
    [landscape |-> <<big, small>>, portrait |-> <<small, big>>,
     square |-> <<small, big>>]

\* variant: the numbers are not checked to be positive
update_target_ratios_unchecked(width_var, height_var) ==
    /\ UNCHANGED <<selected_files, current_index, crop_anchor, crop_mode, disk,
                   attempts, crop_in, crop_out>>
    /\ IF IntParses(width_var) /\ IntParses(height_var)
       THEN /\ TARGET_RATIOS' = NewRatios(Max(width_var.val, height_var.val),
                                          Min(width_var.val, height_var.val))
            /\ Render(selected_files, current_index, crop_anchor, crop_mode,
                      TARGET_RATIOS', disk)
            /\ last' = Done("update_target_ratios", 0, <<>>, "applied")
       ELSE /\ last' = Done("update_target_ratios", 0, <<>>, "rejected")
            /\ UNCHANGED <<TARGET_RATIOS, preview, process_button>>

\* update_target_ratios: the Apply button, with the two entry texts
update_target_ratios(width_var, height_var) ==
    /\ UNCHANGED <<selected_files, current_index, crop_anchor, crop_mode, disk,
                   attempts, crop_in, crop_out>>
    /\ IF IntParses(width_var) /\ IntParses(height_var)
          /\ ~(width_var.val <= 0 \/ height_var.val <= 0)
       THEN /\ TARGET_RATIOS' = NewRatios(Max(width_var.val, height_var.val),
                                          Min(width_var.val, height_var.val))
            /\ Render(selected_files, current_index, crop_anchor, crop_mode,
                      TARGET_RATIOS', disk)
            /\ last' = Done("update_target_ratios", 0, <<>>, "applied")
       ELSE /\ last' = Done("update_target_ratios", 0, <<>>, "rejected")
            /\ UNCHANGED <<TARGET_RATIOS, preview, process_button>>

\* ------------------------------------------------------- the session spec
NoCall == [width |-> 1, height |-> 1, ratio |-> <<1, 1>>, anchor |-> "center"]

Startup ==
    /\ selected_files = <<>>
    /\ current_index = 0
    /\ crop_anchor = "center"
    /\ crop_mode = "auto"
    /\ TARGET_RATIOS = DEFAULT_RATIOS
    /\ process_button = "disabled"
    /\ preview = Placeholder
    /\ attempts = <<>>
    /\ last = Done("none", 0, <<>>, "none")

Init ==
    /\ Startup
    /\ disk \in {d \in [DiskPaths -> InitContents \cup {Absent}] :
                   /\ \A p \in DiskPaths : d[p] = Absent <=> p \notin Files
                   /\ \E p \in Files : d[p].kind = "image"}
    /\ crop_in = NoCall
    /\ crop_out = <<>>

Next ==
    \/ \E paths \in Selections : select_files(paths)
    \/ \E fault \in Faults : begin_process(fault)
    \/ \E val \in ANCHOR_OPTIONS : update_anchor(val)
    \/ \E val \in MODE_OPTIONS : update_mode(val)
    \/ \E w \in Entries, h \in Entries : update_target_ratios(w, h)

Spec == Init /\ [][Next]_vars

\* ------------------------------------------------ the crop geometry spec
CropInputs ==
    {[width |-> w, height |-> h, ratio |-> <<rw, rh>>, anchor |-> a] :
        w \in 1..MaxDim, h \in 1..MaxDim, rw \in 1..MaxRatio, rh \in 1..MaxRatio,
        a \in ANCHOR_OPTIONS}
    \cup {[width |-> 4000, height |-> 3000, ratio |-> <<15, 10>>, anchor |-> a] :
            a \in ANCHOR_OPTIONS}

InitCrop ==
    /\ Startup
    /\ disk = [p \in DiskPaths |-> IF p \in Files THEN Picture(2, 2) ELSE Absent]
    /\ crop_in \in CropInputs
    /\ crop_out = <<>>

CallCropBox ==
    /\ crop_out = <<>>
    /\ crop_out' = get_target_crop_box(crop_in.width, crop_in.height,
                                       crop_in.ratio, crop_in.anchor)
    /\ UNCHANGED <<session_vars, crop_in>>

NextCrop == CallCropBox

SpecCrop == InitCrop /\ [][NextCrop]_vars

\* ---------------------------------------------- the anchor coordinate spec
\* get_crop_coords as get_target_crop_box calls it: origin 0, an axis of
\* length L and a crop length 0 <= c <= L
CoordInputs ==
    {[start |-> 0, length |-> L, crop_length |-> c, anchor |-> a] :
        L \in 1..MaxDim, c \in 0..MaxDim, a \in ANCHOR_OPTIONS}

InitCoords ==
    /\ Startup
    /\ disk = [p \in DiskPaths |-> IF p \in Files THEN Picture(2, 2) ELSE Absent]
    /\ crop_in \in {i \in CoordInputs : i.crop_length <= i.length}
    /\ crop_out = <<>>

CallCropCoords ==
    /\ crop_out = <<>>
    /\ crop_out' = get_crop_coords(crop_in.start, crop_in.length,
                                   crop_in.crop_length, crop_in.anchor)
    /\ UNCHANGED <<session_vars, crop_in>>

NextCoords == CallCropCoords

SpecCoords == InitCoords /\ [][NextCoords]_vars

\* ------------------------------------------------- the ratio table spec
\* the Apply button and direct determine_target_ratio calls on the table
ResolveInputs ==
    {[width |-> w, height |-> h, mode |-> m] :
        w \in 1..MaxDim, h \in 1..MaxDim, m \in MODE_OPTIONS}

InitRatios ==
    /\ Startup
    /\ disk = [p \in DiskPaths |-> IF p \in Files THEN Picture(2, 2) ELSE Absent]
    /\ crop_in = NoCall
    /\ crop_out = <<>>

CallResolve(i) ==
    /\ crop_in' = i
    /\ crop_out' = determine_target_ratio(i.width, i.height, i.mode, TARGET_RATIOS)
    /\ last' = Done("determine_target_ratio", 0, <<>>, "returned")
    /\ UNCHANGED <<selected_files, current_index, crop_anchor, crop_mode,
                   TARGET_RATIOS, process_button, preview, disk, attempts>>

NextRatios ==
    \/ \E w \in Entries, h \in Entries : update_target_ratios(w, h)
    \/ \E i \in ResolveInputs : CallResolve(i)

SpecRatios == InitRatios /\ [][NextRatios]_vars

\* ------------------------------------------------------ the commit spec
\* batches over file names that differ in their extension only, with paths
\* compared as the strings they are; a selected file may be missing or
\* unreadable
CommitFiles == Files \cup {Path("a", ".JPG")}

CommitPaths == CommitFiles \cup {OutputPath(p) : p \in CommitFiles}

CommitSelections ==
    {q \in UNION {[1..n -> CommitFiles] : n \in 1..MaxQueue} : NoRepeat(q)}

InitCommit ==
    /\ Startup
    /\ disk \in {d \in [CommitPaths -> InitContents \cup {Absent}] :
                   \E p \in CommitFiles : d[p].kind = "image"}
    /\ crop_in = NoCall
    /\ crop_out = <<>>

NextCommit ==
    \/ \E paths \in CommitSelections : select_files(paths)
    \/ \E fault \in Faults : begin_process(fault)

SpecCommit == InitCommit /\ [][NextCommit]_vars

\* ------------------------------------------------------------ properties
Previewing(i) == i < Len(selected_files)
Complete == selected_files # <<>> /\ current_index = Len(selected_files)
Idle == selected_files = <<>>

\* C1: a begin_process call made in Previewing(i) leaves current_index = i + 1,
\* whether decoding, saving and deleting succeeded or failed.
C1_CommitAlwaysAdvances ==
    (last.op = "begin_process" /\ last.pre < Len(selected_files))
        => current_index = last.pre + 1

\* C2: between two selections the commit pipeline is started at most once for
\* every queue position.
C2_AtMostOncePerFile ==
    \A i \in DOMAIN attempts : attempts[i] # "again"

\* C3: a non-empty selection, from any state, makes the queue exactly the
\* selected paths in their order and the index 0, so the session is in
\* Previewing(0).
C3_SelectReplacesQueue ==
    (last.op = "select_files" /\ last.paths # <<>>)
        => /\ selected_files = last.paths
           /\ current_index = 0
           /\ Previewing(current_index)

\* a selection made after an earlier batch removed a.png
C3_Witness ==
    /\ last.op = "select_files"
    /\ selected_files = <<Path("a", ".jpg"), Path("a", ".png")>>
    /\ disk[Path("a", ".png")].kind = "absent"

\* C4 as stated: an empty selection leaves the session Idle.
C4_EmptySelectionGoesIdle ==
    (last.op = "select_files" /\ last.paths = <<>>) => Idle

\* C4 as amended: an empty selection (a cancelled dialog) changes neither the
\* queue nor the index nor anything else of the session.
C4_EmptySelectionChangesNothing ==
    [][(last'.op = "select_files" /\ last'.paths = <<>>)
          => UNCHANGED <<selected_files, current_index, crop_anchor, crop_mode,
                         TARGET_RATIOS, process_button, preview, disk>>]_vars

\* a cancelled dialog while a batch is complete
C4_Witness ==
    last.op = "select_files" /\ last.paths = <<>> /\ Complete

\* C5: 0 <= current_index <= len(selected_files) in every state, and a
\* begin_process call made in Idle or Complete changes neither the index nor
\* the queue nor any file.
C5_IndexInRange ==
    /\ [](0 <= current_index /\ current_index <= Len(selected_files))
    /\ [][(last'.op = "begin_process" /\ current_index >= Len(selected_files))
             => UNCHANGED <<current_index, selected_files, disk>>]_vars

\* begin_process returned at once in a complete batch
C5_Witness ==
    last.op = "begin_process" /\ last.outcome = "returned" /\ Complete

\* C6: update_anchor, update_mode and update_target_ratios, with the preview
\* they render, leave the index, the queue and every file unchanged, and each
\* changes only its own setting.
C6_SettingsKeepSession ==
    [][(last'.op \in {"update_anchor", "update_mode", "update_target_ratios"})
          => /\ UNCHANGED <<selected_files, current_index, disk>>
             /\ (last'.op = "update_anchor" => UNCHANGED <<crop_mode, TARGET_RATIOS>>)
             /\ (last'.op = "update_mode" => UNCHANGED <<crop_anchor, TARGET_RATIOS>>)
             /\ (last'.op = "update_target_ratios"
                    => UNCHANGED <<crop_anchor, crop_mode>>)]_vars

\* a setting changed while the second file of a batch is previewed, after the
\* first was written
C6_Witness ==
    /\ last.op \in {"update_anchor", "update_mode", "update_target_ratios"}
    /\ last.outcome # "rejected"
    /\ current_index = 1 /\ Previewing(current_index)
    /\ preview.kind = "image"
    /\ disk[Path("a", ".png")].kind = "absent"

CropCalled == crop_out # <<>>

\* C7: the crop box of a width x height image is never empty and never leaves
\* the image.
C7_BoxInsideImage ==
    CropCalled =>
        /\ 0 <= crop_out[1] /\ crop_out[1] < crop_out[3]
        /\ crop_out[3] <= crop_in.width
        /\ 0 <= crop_out[2] /\ crop_out[2] < crop_out[4]
        /\ crop_out[4] <= crop_in.height

KeepsWidth == crop_out[3] - crop_out[1] = crop_in.width
KeepsHeight == crop_out[4] - crop_out[2] = crop_in.height
TooWide == crop_in.width * crop_in.ratio[2] > crop_in.height * crop_in.ratio[1]

\* C8 as stated: exactly one axis keeps its full length.
C8_ExactlyOneAxisKept ==
    CropCalled => (KeepsWidth /\ ~KeepsHeight) \/ (KeepsHeight /\ ~KeepsWidth)

\* C8 as amended: at least one axis keeps its full length; an image that is
\* too wide keeps its height and loses width, any other keeps its width.
C8_OneAxisKept ==
    CropCalled =>
        /\ KeepsWidth \/ KeepsHeight
        /\ TooWide => KeepsHeight /\ ~KeepsWidth
        /\ ~TooWide => KeepsWidth

\* an image already at the target ratio, returned whole
C8_Witness ==
    CropCalled /\ ~TooWide /\ KeepsWidth /\ KeepsHeight /\ crop_in.width > 1

\* the reference box: exact floor of the cropped length
ReferenceBox ==
    IF TooWide
    THEN WidthCrop(get_crop_coords(0, crop_in.width,
                       (crop_in.height * crop_in.ratio[1]) \div crop_in.ratio[2],
                       crop_in.anchor), crop_in.height)
    ELSE HeightCrop(get_crop_coords(0, crop_in.height,
                       (crop_in.width * crop_in.ratio[2]) \div crop_in.ratio[1],
                       crop_in.anchor), crop_in.width)

\* C9: the box is the reference box, whose cropped length is the floor of the
\* exact length for the ratio; 4000x3000 at (15,10), center, gives
\* (0, 167, 4000, 2833).
C9_MatchesReference ==
    CropCalled =>
        /\ crop_out = ReferenceBox
        /\ (crop_in = [width |-> 4000, height |-> 3000, ratio |-> <<15, 10>>,
                       anchor |-> "center"]
               => crop_out = <<0, 167, 4000, 2833>>)

\* C10: an image whose ratio equals the target ratio is returned whole, for
\* every anchor.
C10_EqualRatioKeepsImage ==
    (CropCalled /\ crop_in.width * crop_in.ratio[2] = crop_in.height * crop_in.ratio[1])
        => crop_out = <<0, 0, crop_in.width, crop_in.height>>

\* C11: on an axis of length L with crop length 0 <= c <= L, anchor start
\* gives (0, c), anchor end gives (L - c, L), anchor center gives (o, o + c)
\* with o = floor((L - c) / 2): the leading margin is at most the trailing
\* margin and at most 1 smaller; always end - start = c.
C11_AnchorRule ==
    CropCalled =>
        /\ crop_out[2] - crop_out[1] = crop_in.crop_length
        /\ crop_in.anchor = "start" => crop_out = <<0, crop_in.crop_length>>
        /\ crop_in.anchor = "end"
              => crop_out = <<crop_in.length - crop_in.crop_length, crop_in.length>>
        /\ crop_in.anchor = "center"
              => /\ 2 * crop_out[1] <= crop_in.length - crop_in.crop_length
                 /\ crop_in.length - crop_in.crop_length < 2 * crop_out[1] + 2
                 /\ crop_out[1] <= crop_in.length - crop_out[2]
                 /\ (crop_in.length - crop_out[2]) - crop_out[1] <= 1

\* a centered crop with an odd leftover of three pixels: margins 1 and 2
C11_Witness ==
    /\ CropCalled /\ crop_in.anchor = "center"
    /\ crop_in.length - crop_in.crop_length = 3
    /\ crop_out[1] = 1
    /\ crop_in.length - crop_out[2] = 2

\* the key the resolver is specified to read
ResolvedKey ==
    IF crop_in.mode = "landscape" THEN "landscape"
    ELSE IF crop_in.mode = "portrait" THEN "portrait"
    ELSE IF crop_in.width > crop_in.height THEN "landscape"
    ELSE IF crop_in.height > crop_in.width THEN "portrait"
    ELSE "square"

\* C12: determine_target_ratio returns, for mode landscape or portrait, the
\* current table entry of that mode and the mode itself, whatever the width
\* and height; for mode auto the entry of the classified orientation and that
\* orientation.  The table read is the one the latest accepted Apply left:
\* nothing else changes it.
C12_ResolverReadsTable ==
    /\ [](last.op = "determine_target_ratio"
             => crop_out = <<TARGET_RATIOS[ResolvedKey], ResolvedKey>>)
    /\ [][TARGET_RATIOS' # TARGET_RATIOS
             => last'.op = "update_target_ratios" /\ last'.outcome = "applied"]_vars

\* portrait forced on a landscape-shaped image, after an Apply changed the table
C12_Witness ==
    /\ last.op = "determine_target_ratio"
    /\ crop_in.mode = "portrait" /\ crop_in.width > crop_in.height
    /\ TARGET_RATIOS.portrait = <<1, MaxApply>>
    /\ crop_out = <<<<1, MaxApply>>, "portrait">>

\* C13: Apply with (w, h) and Apply with (h, w), both positive integers, leave
\* the same table landscape = (max, min), portrait = (min, max), square =
\* (min, max), whatever the table was before.
C13_ApplyOrderIndependent ==
    [][\A small \in 1..MaxApply, big \in 1..MaxApply :
          (small <= big
             /\ (update_target_ratios(Entry(small), Entry(big))
                   \/ update_target_ratios(Entry(big), Entry(small))))
          => TARGET_RATIOS' = [landscape |-> <<big, small>>,
                               portrait |-> <<small, big>>,
                               square |-> <<small, big>>]]_vars

\* an Apply normalised two different numbers
C13_Witness ==
    /\ last.op = "update_target_ratios" /\ last.outcome = "applied"
    /\ TARGET_RATIOS = [landscape |-> <<MaxApply, 1>>, portrait |-> <<1, MaxApply>>,
                        square |-> <<1, MaxApply>>]

\* the text is an integer literal greater than zero
PositiveInteger(entry) == entry.text = "int" /\ entry.val > 0

\* C14: an Apply whose width or height is not a positive integer leaves the
\* three table entries unchanged, and in every state both components of
\* every table entry are greater than zero.
C14_InvalidApplyRejected ==
    /\ [](\A k \in DOMAIN TARGET_RATIOS :
             TARGET_RATIOS[k][1] > 0 /\ TARGET_RATIOS[k][2] > 0)
    /\ [][\A w \in Entries, h \in Entries :
             (update_target_ratios(w, h)
                 /\ ~(PositiveInteger(w) /\ PositiveInteger(h)))
             => UNCHANGED TARGET_RATIOS]_vars

\* an Apply was rejected and an earlier table is still in place
C14_Witness ==
    /\ last.op = "update_target_ratios" /\ last.outcome = "rejected"
    /\ TARGET_RATIOS.landscape = <<MaxApply, 1>>

\* the file the last begin_process call worked on
Committed == selected_files[last.pre + 1]

\* the last begin_process call decoded, saved and, where due, deleted
AllStepsSucceeded == last.op = "begin_process" /\ last.outcome = "saved"

\* C15 as stated: after a commit whose steps all succeed the .jpg output
\* exists and the original is gone if and only if its extension is not .jpg.
C15_DeletedIffNotJpg ==
    AllStepsSucceeded =>
        /\ disk[OutputPath(Committed)].kind = "image"
        /\ disk[Committed].kind = "absent" <=> Committed.ext # ".jpg"

\* C15 as amended: the extension is compared without regard to case, so the
\* original is gone if and only if its extension is neither .jpg nor .JPG;
\* the file at the output path is never gone.
C15_DeletedIffNotJpgAnyCase ==
    AllStepsSucceeded =>
        /\ disk[OutputPath(Committed)].kind = "image"
        /\ disk[Committed].kind = "absent" <=> Committed.ext \notin {".jpg", ".JPG"}
        /\ OutputPath(Committed) = Committed => disk[Committed].kind = "image"

\* a.JPG was committed: a.jpg is written and a.JPG is still there
C15_Witness ==
    /\ AllStepsSucceeded
    /\ Committed = Path("a", ".JPG")
    /\ disk[Path("a", ".JPG")].kind = "image"
    /\ disk[Path("a", ".jpg")].kind = "image"

SettingOps == {"update_anchor", "update_mode", "update_target_ratios"}

\* the callback ended in a call of update_preview
Rendered(call) ==
    call.outcome \in {"selected", "saved", "decode_failed", "set", "applied"}

\* C16: a preview rendered again at the same index with the same anchor, mode
\* and ratio table (a setting applied with the value it already has) shows
\* the same crop box and leaves the button, the queue, the index and the
\* files as the first rendering left them.
C16_PreviewIdempotent ==
    [][(/\ Rendered(last)
        /\ last'.op \in SettingOps /\ Rendered(last')
        /\ UNCHANGED <<crop_anchor, crop_mode, TARGET_RATIOS>>)
          => UNCHANGED <<preview, process_button, selected_files, current_index,
                         disk>>]_vars

\* the second file of a batch is previewed after a setting callback, with the
\* settings the program starts with
C16_Witness ==
    /\ last.op \in SettingOps /\ Rendered(last)
    /\ crop_anchor = "center" /\ crop_mode = "auto"
    /\ TARGET_RATIOS = DEFAULT_RATIOS
    /\ current_index = 1 /\ Previewing(current_index)
    /\ preview = [kind |-> "image", box |-> <<0, 0, 2, 2>>]

\* C17: in every state Previewing(i), also one entered after a decode, save
\* or delete failure, the process button is enabled.
C17_CommitAvailable ==
    Previewing(current_index) => process_button = "normal"

\* C18: when the save succeeded and removing the original raised, the .jpg
\* and the original are both on disk and the index has moved to the next
\* file.
C18_DeleteFailureContinues ==
    (last.op = "begin_process" /\ last.outcome = "delete_failed")
        => /\ disk[OutputPath(Committed)].kind = "image"
           /\ disk[Committed].kind # "absent"
           /\ current_index = last.pre + 1

\* C19: a begin_process call on a file that cannot be decoded changes no
\* file, no setting and not the queue; it moves the index by one (and the
\* preview is rendered for the new index).
C19_DecodeFailureTouchesNoFile ==
    [][(/\ last'.op = "begin_process"
        /\ current_index < Len(selected_files)
        /\ disk[selected_files[current_index + 1]].kind # "image")
          => /\ UNCHANGED <<disk, selected_files, crop_anchor, crop_mode,
                            TARGET_RATIOS>>
             /\ current_index' = current_index + 1]_vars

\* the unreadable second file of a batch was skipped after the first was
\* committed
C19_Witness ==
    /\ last.op = "begin_process" /\ last.outcome = "decode_failed"
    /\ last.pre = 1 /\ current_index = 2
    /\ disk[selected_files[2]].kind = "corrupt"
    /\ attempts = <<"once", "once">>

\* C20: the process button is enabled only in Previewing(i): the queue is
\* not empty and the index is below its length.
C20_ButtonOnlyWhenPreviewing ==
    process_button = "normal"
        => selected_files # <<>> /\ current_index < Len(selected_files)

\* a batch completed after a commit had failed and was repeated: the button
\* is disabled
C20_Witness ==
    /\ Complete /\ process_button = "disabled"
    /\ last.op = "begin_process"
    /\ \E i \in DOMAIN attempts : attempts[i] = "again"

====
